---- MODULE Spec2Model ----
(***************************************************************************)
(* Model of the CityJSON building pipeline of osm-city-3d:                 *)
(*   merge3d.py   make_single_building_cityjson (vertex compaction) and    *)
(*                main (point-to-building linking),                        *)
(*   bld2mesh.py  get_sem_type (semantic resolution), triangulate_fan and  *)
(*                the export of one mesh per semantic surface type,        *)
(*   amenity_fetch.py  fetch_overpass (retries) and _run_with_fallback.    *)
(* Python lists are sequences; a Python index i addresses element i+1.     *)
(***************************************************************************)
EXTENDS FiniteSets, Integers, Sequences, TLC

VARIABLES
    \* merge3d.py, make_single_building_cityjson
    cj,             \* the tile document held in cityjson_cache
    call_cj,        \* argument cj of the latest call
    call_id,        \* argument bldg_id of the latest call
    call_ret,       \* what the latest call returned
    recompact,      \* the latest call was applied to an extracted document
    \* bld2mesh.py, get_sem_type
    semantics,      \* geom["semantics"] of the geometry being read
    idx_path,       \* argument of the latest get_sem_type call
    sem_ret,        \* what the latest get_sem_type call returned or raised
    \* bld2mesh.py, triangulate_fan
    used_global_indices,
    ring_global_indices,
    tris,
    \* merge3d.py, main
    tile_docs,      \* the CityJSON document stored under each tile path
    within,         \* for each OSM point, the tiles whose box contains it
    dist,           \* planar distance from each point to each footprint
    pc,             \* position of main
    osm_with_tiles,
    tile_queue,     \* groups of has_tile.groupby("path") still to process
    cityjson_cache,
    matched_chunks,
    matched_all,
    next_row,       \* position of the output loop in matched_all
    files,          \* content of 3d/<osm_id>_bld.json, by osm_id
    \* bld2mesh.py, the script
    geoms,          \* building_obj.get("geometry")
    stage,          \* position of the script
    polygons_by_type,
    meshes,
    scene,          \* the nodes of the exported scene
    \* amenity_fetch.py, _run_with_fallback and fetch_overpass
    phase,          \* position of _run_with_fallback
    attempt,
    backoff,
    sleeps,         \* arguments of time.sleep in the running fetch_overpass call
    resp,           \* what requests.post gave last
    fetch_ret,      \* how the latest fetch_overpass call ended
    area_ret,       \* how the area call ended
    calls           \* labels of the fetch_overpass calls, in order

compactVars == <<cj, call_cj, call_id, call_ret, recompact>>
semVars == <<semantics, idx_path, sem_ret>>
triVars == <<used_global_indices, ring_global_indices, tris>>
linkInputs == <<tile_docs, within, dist>>
linkVars == <<linkInputs, pc, osm_with_tiles, tile_queue, cityjson_cache,
              matched_chunks, matched_all, next_row, files>>
meshVars == <<geoms, stage, polygons_by_type, meshes, scene>>
fetchVars == <<phase, attempt, backoff, sleeps, resp, fetch_ret, area_ret, calls>>
vars == <<compactVars, semVars, triVars, linkVars, meshVars, fetchVars>>

(***************************************************************************)
(* Bounds                                                                  *)
(***************************************************************************)
NumVertices == 3
MaxNodes == 4
MaxSurfaces == 2
MaxValueNodes == 4
MaxSurfIdx == 5
MaxNestIdx == 1
MaxGlobal == 3
MaxRingLen == 4
NumPoints == 1
MaxMeshSurfaces == 2

(***************************************************************************)
(* JSON trees: an integer leaf, a list of trees, or any other JSON value   *)
(* (null, string, ...).                                                    *)
(***************************************************************************)
Leaf(n) == [kind |-> "int", v |-> n, c |-> <<>>]
Group(s) == [kind |-> "list", v |-> 0, c |-> s]
Other == [kind |-> "other", v |-> 0, c |-> <<>>]
Null == [kind |-> "null", v |-> 0, c |-> <<>>]
Object == [kind |-> "object", v |-> 0, c |-> <<>>]

RECURSIVE Size(_)
Size(x) ==
    IF x.kind = "list"
    THEN 1 + (LET RECURSIVE sum(_)
                  sum(i) == IF i = 0 THEN 0 ELSE Size(x.c[i]) + sum(i - 1)
              IN sum(Len(x.c)))
    ELSE 1

RECURSIVE TreesN(_, _)
RECURSIVE ForestsN(_, _)
\* all trees with at most n nodes (n >= 1) whose non-list leaves are in L
TreesN(L, n) == L \cup { Group(f) : f \in ForestsN(L, n - 1) }
\* all sequences of trees with at most n nodes in total
ForestsN(L, n) ==
    IF n = 0 THEN { <<>> }
    ELSE { <<>> } \cup
         UNION { { <<t>> \o f : f \in ForestsN(L, n - Size(t)) } : t \in TreesN(L, n) }

\* boundary leaves: vertex indices 0..NumVertices (the last one is out of
\* range of the vertices array) and a non-integer value
BoundaryLeaves == { Leaf(n) : n \in 0..NumVertices } \cup { Other }

(***************************************************************************)
(* CityJSON documents                                                      *)
(***************************************************************************)
\* geom["semantics"]: the key is absent, holds null, or holds an object
NoSemantics == [json |-> "absent", surfaces |-> <<>>, values |-> Null]
NullSemantics == [json |-> "null", surfaces |-> <<>>, values |-> Null]
Semantics(sd, v) == [json |-> "object", surfaces |-> sd, values |-> v]
GeomS(t, b, sem) == [type |-> t, boundaries |-> b, semantics |-> sem]
Geom(b) == GeomS("MultiSurface", b, NoSemantics)
Building(gs) == [type |-> "Building", geometry |-> gs]

full_vertices_of_tile == [i \in 1..NumVertices |-> 10 * i]

TopLevelKeys == [type |-> "CityJSON", version |-> "1.0.1"]

Doc(vs, objs) == [vertices |-> vs, CityObjects |-> objs, rest |-> TopLevelKeys]

NoDoc == Doc(<<>>, <<>>)

\* the top-level members of a tile document besides CityObjects and vertices
TopLevelKeySets ==
    { TopLevelKeys,
      [type |-> "CityJSON", version |-> "1.0.1", transform |-> "scale", metadata |-> "EPSG:25832"] }

\* semantics of a geometry: the first surface is a roof, the second a wall
SurfaceSemantics == Semantics(<<"WallSurface", "RoofSurface">>, Group(<<Leaf(1), Leaf(0)>>))

\* building "B" of the tile: one surface with one ring
BuildingB ==
    Building(<< GeomS("MultiSurface",
                      Group(<< Group(<< Group(<< Leaf(NumVertices - 1), Leaf(0) >>) >>) >>),
                      SurfaceSemantics) >>)

\* the first geometry of building "A" carries semantics, the others none
SourceDocs ==
    { [Doc(full_vertices_of_tile,
           [id \in {"A", "B"} |-> IF id = "A" THEN Building(gs) ELSE BuildingB])
         EXCEPT !.rest = r] :
      gs \in { [i \in DOMAIN f |-> IF i = 1 THEN GeomS("MultiSurface", f[i], SurfaceSemantics)
                                              ELSE Geom(f[i])] :
                f \in ForestsN(BoundaryLeaves, MaxNodes) },
      r \in TopLevelKeySets }

BuildingIds == {"A", "B", "Z"}

(***************************************************************************)
(* merge3d.py: make_single_building_cityjson                               *)
(***************************************************************************)
RECURSIVE collect_indices(_)
collect_indices(x) ==
    IF x.kind = "int" THEN { x.v }
    ELSE IF x.kind = "list" THEN UNION { collect_indices(x.c[i]) : i \in DOMAIN x.c }
    ELSE {}

used_indices(bld_obj) ==
    UNION { collect_indices(bld_obj.geometry[g].boundaries) : g \in DOMAIN bld_obj.geometry }

\* faulty variant: descending order
RECURSIVE sorted_descending(_)
sorted_descending(S) ==
    IF S = {} THEN <<>>
    ELSE LET m == CHOOSE x \in S : \A y \in S : x >= y
         IN <<m>> \o sorted_descending(S \ {m})

RECURSIVE sorted(_)
sorted(S) ==
    IF S = {} THEN <<>>
    ELSE LET m == CHOOSE x \in S : \A y \in S : x <= y
         IN <<m>> \o sorted(S \ {m})

\* faulty variant: the global index is kept
index_map_identity(sorted_idx) ==
    [old \in { sorted_idx[i] : i \in DOMAIN sorted_idx } |-> old]

index_map(sorted_idx) ==
    [old \in { sorted_idx[i] : i \in DOMAIN sorted_idx } |->
        (CHOOSE i \in DOMAIN sorted_idx : sorted_idx[i] = old) - 1]

\* faulty variant: gathers the first N rows instead of the rows at the sorted indices
new_vertices_prefix(full_vertices, sorted_idx) ==
    [i \in DOMAIN sorted_idx |-> full_vertices[i]]

new_vertices(full_vertices, sorted_idx) ==
    [i \in DOMAIN sorted_idx |-> full_vertices[sorted_idx[i] + 1]]

\* faulty variant: children that are neither integers nor lists are dropped
RECURSIVE remap_boundaries_filtering(_, _)
remap_boundaries_filtering(x, imap) ==
    IF x.kind = "int" THEN Leaf(imap[x.v])
    ELSE IF x.kind = "list"
         THEN LET kept == SelectSeq(x.c, LAMBDA e : e.kind # "other")
              IN Group([i \in DOMAIN kept |-> remap_boundaries_filtering(kept[i], imap)])
    ELSE x

RECURSIVE remap_boundaries(_, _)
remap_boundaries(x, imap) ==
    IF x.kind = "int" THEN Leaf(imap[x.v])
    ELSE IF x.kind = "list"
         THEN Group([i \in DOMAIN x.c |-> remap_boundaries(x.c[i], imap)])
    ELSE x

\* faulty variant: a building without geometry keeps the whole vertex array
compact_vertices_keep_all(full_vertices, used) ==
    IF used = {}
    THEN [new_vertices |-> full_vertices, index_map |-> <<>>]
    ELSE LET sorted_idx == sorted(used)
         IN [new_vertices |-> new_vertices(full_vertices, sorted_idx),
             index_map |-> index_map(sorted_idx)]

\* lines 206-213: the compact vertex array and the global-to-local map
compact_vertices(full_vertices, used) ==
    IF used = {}
    THEN [new_vertices |-> <<>>, index_map |-> <<>>]
    ELSE LET sorted_idx == sorted(used)
         IN [new_vertices |-> new_vertices(full_vertices, sorted_idx),
             index_map |-> index_map(sorted_idx)]

\* faulty variant: the geometry is rebuilt from its type and boundaries
remap_geometry_without_semantics(geom, idx_map) ==
    GeomS(geom.type, remap_boundaries(geom.boundaries, idx_map), NoSemantics)

\* lines 223-225: the boundaries of the copied geometry are replaced
remap_geometry(geom, idx_map) ==
    [geom EXCEPT !.boundaries = remap_boundaries(@, idx_map)]

\* faulty variant: only the type and the version of the tile are kept
single_cj_type_and_version(doc, vs, bldg_id, bld_obj) ==
    [vertices |-> vs, CityObjects |-> [id \in {bldg_id} |-> bld_obj], rest |-> TopLevelKeys]

\* lines 227-230: every top-level member but CityObjects and vertices is
\* kept, then the compact vertices and the one building are set
single_cj(doc, vs, bldg_id, bld_obj) ==
    [vertices |-> vs, CityObjects |-> [id \in {bldg_id} |-> bld_obj], rest |-> doc.rest]

make_single_building_cityjson(doc, bldg_id) ==
    IF bldg_id \notin DOMAIN doc.CityObjects
    THEN [status |-> "None", doc |-> NoDoc]
    ELSE
      LET full_vertices == doc.vertices
          bld_obj == doc.CityObjects[bldg_id]
          used == used_indices(bld_obj)
      IN
        \* full_vertices[i] raises IndexError for i >= len(full_vertices)
        IF \E i \in used : i >= Len(full_vertices)
        THEN [status |-> "IndexError", doc |-> NoDoc]
        ELSE
          LET cv == compact_vertices(full_vertices, used)
              new_obj ==
                [bld_obj EXCEPT !.geometry =
                    [g \in DOMAIN bld_obj.geometry |->
                        remap_geometry(bld_obj.geometry[g], cv.index_map)]]
          IN [status |-> "ok", doc |-> single_cj(doc, cv.new_vertices, bldg_id, new_obj)]

\* faulty variant: the building is taken by reference
copy_by_reference(obj) == [aliased |-> TRUE, value |-> obj]

\* line 191: copy.deepcopy gives an object that shares nothing with the source
copy_deepcopy(obj) == [aliased |-> FALSE, value |-> obj]

\* the document cj after the call: line 225 assigns geom["boundaries"] of
\* bld_obj, which reaches the source only if bld_obj shares it; an IndexError
\* at line 213 leaves the function before any assignment
cj_after_call(doc, bldg_id) ==
    LET ret == make_single_building_cityjson(doc, bldg_id)
    IN IF ret.status = "ok" /\ copy_deepcopy(doc.CityObjects[bldg_id]).aliased
       THEN [doc EXCEPT !.CityObjects[bldg_id] = ret.doc.CityObjects[bldg_id]]
       ELSE doc

(***************************************************************************)
(* Specification SpecCompact: extractions from a tile document, and        *)
(* extractions applied to an extracted document.                           *)
(***************************************************************************)
NoCall == [status |-> "nocall", doc |-> NoDoc]
NoResult == [raised |-> "nocall", type |-> ""]

IdleCompact ==
    /\ cj = NoDoc /\ call_cj = NoDoc /\ call_id = "none"
    /\ call_ret = NoCall /\ recompact = FALSE

IdleSem == semantics = NoSemantics /\ idx_path = <<>> /\ sem_ret = NoResult

IdleTri ==
    used_global_indices = <<>> /\ ring_global_indices = <<>> /\ tris = <<"nocall">>

IdleLink ==
    /\ tile_docs = <<>> /\ within = <<>> /\ dist = <<>>
    /\ pc = "idle" /\ osm_with_tiles = <<>> /\ tile_queue = <<>>
    /\ cityjson_cache = <<>> /\ matched_chunks = <<>> /\ matched_all = <<>>
    /\ next_row = 1 /\ files = <<>>

IdleMesh ==
    /\ geoms = <<>> /\ stage = "idle"
    /\ polygons_by_type = <<>> /\ meshes = <<>> /\ scene = <<>>

\* no response, and no outcome of a call
NoResponse == [kind |-> "none", code |-> 0, text |-> <<>>, elements |-> 0]
NoOutcome == [status |-> "none", msg |-> <<>>, elements |-> 0]

IdleFetch ==
    /\ phase = "idle" /\ attempt = 0 /\ backoff = 0 /\ sleeps = <<>>
    /\ resp = NoResponse /\ fetch_ret = NoOutcome /\ area_ret = NoOutcome /\ calls = <<>>

InitCompact ==
    /\ IdleSem /\ IdleTri /\ IdleLink /\ IdleMesh /\ IdleFetch
    /\ cj \in SourceDocs
    /\ call_cj = NoDoc
    /\ call_id = "none"
    /\ call_ret = NoCall
    /\ recompact = FALSE

\* main, lines 368-370: extract building bldg_id from the cached tile document
Extract ==
    \E bldg_id \in BuildingIds :
        /\ call_cj' = cj
        /\ call_id' = bldg_id
        /\ call_ret' = make_single_building_cityjson(cj, bldg_id)
        /\ recompact' = FALSE
        /\ cj' = cj_after_call(cj, bldg_id)
        /\ UNCHANGED <<semVars, triVars, linkVars, meshVars, fetchVars>>

\* apply the function again to the document it has just produced
ReExtract ==
    /\ call_ret.status = "ok"
    /\ recompact = FALSE
    /\ call_cj' = call_ret.doc
    /\ call_ret' = make_single_building_cityjson(call_ret.doc, call_id)
    /\ recompact' = TRUE
    /\ UNCHANGED <<cj, call_id, semVars, triVars, linkVars, meshVars, fetchVars>>

NextCompact == Extract \/ ReExtract

SpecCompact == InitCompact /\ [][NextCompact]_vars

(***************************************************************************)
(* bld2mesh.py: get_sem_type                                               *)
(***************************************************************************)
SurfaceTypes == <<"WallSurface", "RoofSurface", "GroundSurface">>

\* semantics["surfaces"]: a list of surface definitions, here their types
SurfaceLists == { SubSeq(SurfaceTypes, 1, n) : n \in 0..MaxSurfaces }

\* semantics["values"]: integers (negative and out of range included), null,
\* JSON objects and lists of these
ValueLeaves == { Leaf(n) : n \in (-1)..MaxSurfaces } \cup { Null, Object }

SemanticsSet ==
    { NoSemantics, NullSemantics } \cup
    { Semantics(sd, v) : sd \in SurfaceLists, v \in TreesN(ValueLeaves, MaxValueNodes) }

\* one index for MultiSurface/CompositeSurface, three for Solid/MultiSolid
IdxPaths ==
    { <<i>> : i \in 0..MaxSurfIdx } \cup
    { <<i, j, k>> : i \in 0..MaxNestIdx, j \in 0..MaxNestIdx, k \in 0..MaxNestIdx }

\* lines 118-120: semantics = geom.get("semantics") or {}
surf_defs_of(sem) == IF sem.json = "object" THEN sem.surfaces ELSE <<>>
values_of(sem) == IF sem.json = "object" THEN sem.values ELSE Null

\* lines 132-134: v = values; for i in idx_path: v = v[i]
RECURSIVE walk(_, _)
walk(v, path) ==
    IF path = <<>> THEN [err |-> "none", v |-> v]
    ELSE IF v.kind = "list"
         THEN IF Head(path) + 1 \in DOMAIN v.c
              THEN walk(v.c[Head(path) + 1], Tail(path))
              ELSE [err |-> "IndexError", v |-> v]
    ELSE IF v.kind = "object" THEN [err |-> "KeyError", v |-> v]
    ELSE [err |-> "TypeError", v |-> v]

Returns(t) == [raised |-> "none", type |-> t]
Raises(e) == [raised |-> e, type |-> ""]

\* lines 143-146
surface_type(surf_defs, sem_idx) ==
    IF sem_idx.kind = "int" /\ 0 <= sem_idx.v /\ sem_idx.v < Len(surf_defs)
    THEN surf_defs[sem_idx.v + 1]
    ELSE "Unknown"

\* faulty variant: the lower bound of the range check is missing, so that a negative
\* index addresses the list from its end
get_sem_type_no_lower_bound(surf_defs, values, path) ==
    IF surf_defs = <<>> \/ values.kind = "null" THEN Returns("Unknown")
    ELSE LET w == walk(values, path)
         IN IF w.err \in {"IndexError", "TypeError"} THEN Returns("Unknown")
            ELSE IF w.err # "none" THEN Raises(w.err)
            ELSE IF w.v.kind = "list" /\ w.v.c = <<>> THEN Raises("IndexError")
            ELSE LET sem_idx == IF w.v.kind = "list" THEN w.v.c[1] ELSE w.v
                 IN IF sem_idx.kind = "int" /\ sem_idx.v < Len(surf_defs)
                    THEN Returns(surf_defs[IF sem_idx.v < 0
                                           THEN Len(surf_defs) + sem_idx.v + 1
                                           ELSE sem_idx.v + 1])
                    ELSE Returns("Unknown")

get_sem_type(surf_defs, values, path) ==
    IF surf_defs = <<>> \/ values.kind = "null" THEN Returns("Unknown")
    ELSE LET w == walk(values, path)
         IN \* except (IndexError, TypeError): return sem_type
            IF w.err \in {"IndexError", "TypeError"} THEN Returns("Unknown")
            \* any other exception of v[i] leaves the function
            ELSE IF w.err # "none" THEN Raises(w.err)
            \* line 139, outside the try block: v[0] of an empty list
            ELSE IF w.v.kind = "list" /\ w.v.c = <<>> THEN Raises("IndexError")
            ELSE LET sem_idx == IF w.v.kind = "list" THEN w.v.c[1] ELSE w.v
                 IN Returns(surface_type(surf_defs, sem_idx))

InitSem ==
    /\ IdleCompact /\ IdleTri /\ IdleLink /\ IdleMesh /\ IdleFetch
    /\ semantics \in SemanticsSet
    /\ idx_path = <<>>
    /\ sem_ret = NoResult

\* lines 163, 191, 208: a call get_sem_type(path)
Resolve ==
    \E path \in IdxPaths :
        /\ sem_ret = NoResult
        /\ idx_path' = path
        /\ sem_ret' = get_sem_type(surf_defs_of(semantics), values_of(semantics), path)
        /\ UNCHANGED <<semantics, compactVars, triVars, linkVars, meshVars, fetchVars>>

NextSem == Resolve

SpecSem == InitSem /\ [][NextSem]_vars

(***************************************************************************)
(* bld2mesh.py: triangulate_fan                                            *)
(***************************************************************************)
\* line 226
global_to_local(used) ==
    [g \in { used[i] : i \in DOMAIN used } |-> (CHOOSE i \in DOMAIN used : used[i] = g) - 1]

\* faulty variant: a triangle strip instead of a fan
triangulate_strip(ring, g2l) ==
    LET local_ring == [i \in DOMAIN ring |-> g2l[ring[i]]]
    IN IF Len(local_ring) < 3 THEN <<>>
       ELSE [i \in 1..(Len(local_ring) - 2) |->
                <<local_ring[i], local_ring[i + 1], local_ring[i + 2]>>]

\* lines 242-250; range(1, len - 1) is i = 1..len-2, and Python's
\* local_ring[i] is element i + 1
triangulate_fan(ring, g2l) ==
    LET local_ring == [i \in DOMAIN ring |-> g2l[ring[i]]]
    IN IF Len(local_ring) < 3 THEN <<>>
       ELSE [i \in 1..(Len(local_ring) - 2) |->
                <<local_ring[1], local_ring[i + 1], local_ring[i + 2]>>]

SeqsUpTo(S, n) == UNION { [1..k -> S] : k \in 0..n }

InitTri ==
    /\ IdleCompact /\ IdleSem /\ IdleLink /\ IdleMesh /\ IdleFetch
    /\ \E S \in (SUBSET (0..MaxGlobal)) \ {{}} : used_global_indices = sorted(S)
    /\ ring_global_indices = <<>>
    /\ tris = <<"nocall">>

\* line 258: faces.extend(triangulate_fan(poly))
Triangulate ==
    \E ring \in SeqsUpTo({ used_global_indices[i] : i \in DOMAIN used_global_indices },
                         MaxRingLen) :
        /\ tris = <<"nocall">>
        /\ ring_global_indices' = ring
        /\ tris' = triangulate_fan(ring, global_to_local(used_global_indices))
        /\ UNCHANGED <<used_global_indices, compactVars, semVars, linkVars, meshVars, fetchVars>>

NextTri == Triangulate

SpecTri == InitTri /\ [][NextTri]_vars

(***************************************************************************)
(* merge3d.py: load_buildings_from_cityjson                                *)
(***************************************************************************)
\* the first exception raised by a loop whose iterations have these outcomes
FirstError(outcomes) ==
    IF \E i \in DOMAIN outcomes : outcomes[i].err # "none"
    THEN outcomes[CHOOSE i \in DOMAIN outcomes :
                     /\ outcomes[i].err # "none"
                     /\ \A j \in 1..(i - 1) : outcomes[j].err = "none"].err
    ELSE "none"

RECURSIVE SumPolys(_)
SumPolys(outcomes) ==
    IF outcomes = <<>> THEN 0 ELSE Head(outcomes).polys + SumPolys(Tail(outcomes))

Polys(n) == [err |-> "none", polys |-> n]
Fails(e) == [err |-> e, polys |-> 0]

\* the outcome of a loop: its first exception, or the polygons it collected
Loop(outcomes) ==
    IF FirstError(outcomes) # "none" THEN Fails(FirstError(outcomes))
    ELSE Polys(SumPolys(outcomes))

\* Python truth value of a JSON value
truthy(x) ==
    \/ x.kind = "list" /\ x.c # <<>>
    \/ x.kind = "int" /\ x.v # 0
    \/ x.kind \in {"object", "other"}

\* lines 138-143
sem_idx_of(values, surf_idx) ==
    IF ~truthy(values) THEN [err |-> "none", v |-> Null]
    ELSE IF values.kind = "list"
         THEN IF surf_idx + 1 \notin DOMAIN values.c THEN [err |-> "IndexError", v |-> Null]
              ELSE LET e == values.c[surf_idx + 1]
                   IN IF e.kind # "list" THEN [err |-> "none", v |-> e]
                      ELSE IF e.c = <<>> THEN [err |-> "IndexError", v |-> Null]
                      ELSE [err |-> "none", v |-> e.c[1]]
    ELSE IF values.kind = "object" THEN [err |-> "KeyError", v |-> Null]
    ELSE [err |-> "TypeError", v |-> Null]

\* lines 149-151: one ring becomes one polygon
ring_outcome(ring, vertices) ==
    IF ring.kind # "list" THEN Fails("TypeError")
    ELSE IF \E i \in DOMAIN ring.c : ring.c[i].kind # "int" THEN Fails("TypeError")
    ELSE IF \E i \in DOMAIN ring.c : ring.c[i].v >= Len(vertices) THEN Fails("IndexError")
    \* shapely refuses a linear ring of one or two points
    ELSE IF Len(ring.c) \in {1, 2} THEN Fails("ValueError")
    ELSE Polys(1)

\* lines 136-151, one iteration of the loop over the surfaces
surface_outcome(values, ground_indices, surf_idx, rings, vertices) ==
    LET sem == sem_idx_of(values, surf_idx)
    IN IF sem.err # "none" THEN Fails(sem.err)
       \* a list or a dict is unhashable: "sem_idx not in ground_indices"
       ELSE IF sem.v.kind \in {"list", "object"} THEN Fails("TypeError")
       ELSE IF ~(sem.v.kind = "int" /\ sem.v.v \in ground_indices) THEN Polys(0)
       ELSE IF rings.kind # "list" THEN Fails("TypeError")
       ELSE Loop([r \in DOMAIN rings.c |-> ring_outcome(rings.c[r], vertices)])

\* lines 119-151, one iteration of the loop over the geometries
geom_outcome(geom, vertices) ==
    IF geom.type # "MultiSurface" THEN Polys(0)
    \* geom.get("semantics", {}) is None for a null value: None.get fails
    ELSE IF geom.semantics.json = "null" THEN Fails("AttributeError")
    ELSE LET surfaces == geom.semantics.surfaces
             values == geom.semantics.values
             ground_indices ==
                 { i - 1 : i \in { j \in DOMAIN surfaces : surfaces[j] = "GroundSurface" } }
         IN IF ground_indices = {} THEN Polys(0)
            \* enumerate(boundaries) of a value that is not a list
            ELSE IF geom.boundaries.kind # "list" THEN Fails("TypeError")
            ELSE Loop([k \in DOMAIN geom.boundaries.c |->
                          surface_outcome(values, ground_indices, k - 1,
                                          geom.boundaries.c[k], vertices)])

\* lines 112-161, one iteration of the loop over the city objects
building_outcome(obj, vertices) ==
    IF obj.type # "Building" THEN Polys(0)
    ELSE Loop([g \in DOMAIN obj.geometry |-> geom_outcome(obj.geometry[g], vertices)])

\* faulty variant: a building without ground polygon gets a row as well
footprint_rows_of_every_building(order, outcomes) == order

\* lines 153-161: a row for each building that collected a ground polygon
footprint_rows(order, outcomes) ==
    LET keep == { k \in DOMAIN order : outcomes[k].polys > 0 }
    IN [i \in 1..Cardinality(keep) |->
           order[CHOOSE k \in keep : Cardinality({ j \in keep : j < k }) = i - 1]]

\* the footprint rows (building ids, in document order), or the exception
load_buildings_from_cityjson(doc) ==
    \* lines 107-108: cj["vertices"], cj["CityObjects"]
    IF doc.missing \cap {"vertices", "CityObjects"} # {}
    THEN [raised |-> "KeyError", rows |-> <<>>]
    ELSE LET outcomes == [k \in DOMAIN doc.order |->
                             building_outcome(doc.CityObjects[doc.order[k]], doc.vertices)]
         IN IF FirstError(outcomes) # "none"
            THEN [raised |-> FirstError(outcomes), rows |-> <<>>]
            ELSE [raised |-> "none", rows |-> footprint_rows(doc.order, outcomes)]

(***************************************************************************)
(* merge3d.py: main                                                        *)
(***************************************************************************)
MAX_BUILDING_DISTANCE == 25

Points == 0..(NumPoints - 1)

\* tile paths, in the order of groupby("path")
TilePaths == <<"t1", "t2">>
Tiles == { TilePaths[i] : i \in DOMAIN TilePaths }

\* distances a point can have to a footprint: near, on the threshold, beyond
DistValues == {10, MAX_BUILDING_DISTANCE, 30}

\* pandas cells: a value, None or NaN
DistOf(n) == [na |-> "", v |-> n]
NoneValue == [na |-> "None", v |-> 0]
NaNValue == [na |-> "NaN", v |-> 0]
isna(x) == x \in {"None", "NaN"}

Triangle == Group(<<Leaf(0), Leaf(1), Leaf(2)>>)

\* a building with a wall and a ground surface
GroundBuilding ==
    Building(<< GeomS("MultiSurface",
                      Group(<<Group(<<Triangle>>), Group(<<Triangle>>)>>),
                      Semantics(<<"WallSurface", "GroundSurface">>,
                                Group(<<Leaf(0), Leaf(1)>>))) >>)

\* a building without ground surface
WallBuilding ==
    Building(<< GeomS("MultiSurface",
                      Group(<<Group(<<Triangle>>)>>),
                      Semantics(<<"WallSurface">>, Group(<<Leaf(0)>>))) >>)

\* a building whose semantic values are shorter than its boundaries
ShortValuesBuilding ==
    Building(<< GeomS("MultiSurface",
                      Group(<<Group(<<Triangle>>), Group(<<Triangle>>)>>),
                      Semantics(<<"GroundSurface">>, Group(<<Leaf(0)>>))) >>)

\* CityObjects is a dict: a mapping and the order of its keys; missing holds
\* what a tile file lacks: nothing, a required key, or the readable file itself
TileDoc(order, objs) ==
    [vertices |-> full_vertices_of_tile, CityObjects |-> objs,
     rest |-> TopLevelKeys, order |-> order, missing |-> {}]

\* a tile file that cannot be read, or that lacks a required key
BrokenTileDoc(what) ==
    [vertices |-> IF what = "CityObjects" THEN full_vertices_of_tile ELSE <<>>,
     CityObjects |-> <<>>, rest |-> TopLevelKeys, order |-> <<>>, missing |-> {what}]

TileDocs(t) ==
    IF t = "t1"
    THEN { TileDoc(order, [id \in {"A", "B"} |-> IF id = "A" THEN a ELSE b]) :
             order \in { <<"A", "B">>, <<"B", "A">> },
             a \in { GroundBuilding, WallBuilding },
             b \in { GroundBuilding, WallBuilding, ShortValuesBuilding } }
         \cup { BrokenTileDoc("file"), BrokenTileDoc("vertices") }
    ELSE { TileDoc(<<"C">>, [id \in {"C"} |-> b]) : b \in { GroundBuilding, WallBuilding } }
         \cup { BrokenTileDoc("CityObjects") }

AllBuildings == {"A", "B", "C"}
TileOf(b) == IF b = "C" THEN "t2" ELSE "t1"

RECURSIVE Flatten(_)
Flatten(seqs) == IF seqs = <<>> THEN <<>> ELSE Head(seqs) \o Flatten(Tail(seqs))

\* faulty variant: how="inner", a point in no tile has no row
sjoin_within_inner(w) ==
    Flatten([i \in 1..NumPoints |->
        LET p == i - 1
            tiles == SelectSeq(TilePaths, LAMBDA t : t \in w[p])
        IN [k \in DOMAIN tiles |-> [idx |-> p, path |-> tiles[k]]] ])

\* lines 260-265: sjoin(how="left", predicate="within"), one row per point
\* and containing tile, a row without path for a point in no tile
sjoin_within(w) ==
    Flatten([i \in 1..NumPoints |->
        LET p == i - 1
            tiles == SelectSeq(TilePaths, LAMBDA t : t \in w[p])
        IN IF tiles = <<>> THEN << [idx |-> p, path |-> "NaN"] >>
           ELSE [k \in DOMAIN tiles |-> [idx |-> p, path |-> tiles[k]]] ])

Matched(row, b, d) == [idx |-> row.idx, path |-> row.path, bldg_id |-> b, dist_m |-> d]

\* faulty variant: max_distance is not passed
sjoin_nearest_unbounded(group, bldg_ids, d, max_distance) ==
    Flatten([r \in DOMAIN group |->
        LET p == group[r].idx
            nearest == { k \in DOMAIN bldg_ids :
                           \A j \in DOMAIN bldg_ids : d[p][bldg_ids[j]] >= d[p][bldg_ids[k]] }
            hits == SelectSeq([k \in DOMAIN bldg_ids |-> k], LAMBDA k : k \in nearest)
        IN IF hits = <<>> THEN << Matched(group[r], "NaN", NaNValue) >>
           ELSE [h \in DOMAIN hits |->
                    Matched(group[r], bldg_ids[hits[h]], DistOf(d[p][bldg_ids[hits[h]]]))] ])

\* lines 299-305: sjoin_nearest(how="left", max_distance, distance_col): for
\* each left row one row per equally nearest footprint within max_distance,
\* and a row with NaN cells when there is none
sjoin_nearest(group, bldg_ids, d, max_distance) ==
    Flatten([r \in DOMAIN group |->
        LET p == group[r].idx
            nearest == { k \in DOMAIN bldg_ids :
                           /\ d[p][bldg_ids[k]] <= max_distance
                           /\ \A j \in DOMAIN bldg_ids : d[p][bldg_ids[j]] >= d[p][bldg_ids[k]] }
            hits == SelectSeq([k \in DOMAIN bldg_ids |-> k], LAMBDA k : k \in nearest)
        IN IF hits = <<>> THEN << Matched(group[r], "NaN", NaNValue) >>
           ELSE [h \in DOMAIN hits |->
                    Matched(group[r], bldg_ids[hits[h]], DistOf(d[p][bldg_ids[hits[h]]]))] ])

RECURSIVE Orders(_)
\* all orders of the rows of a sequence
Orders(rows) ==
    IF rows = <<>> THEN { <<>> }
    ELSE UNION { { <<rows[i]>> \o o :
                     o \in Orders([k \in 1..(Len(rows) - 1) |->
                                      IF k < i THEN rows[k] ELSE rows[k + 1]]) } :
                 i \in DOMAIN rows }

RECURSIVE sort_index(_, _)
\* line 323: the rows by ascending index; the sort is not stable, rows of
\* equal index come out in any order
sort_index(rows, p) ==
    IF p >= NumPoints THEN { <<>> }
    ELSE { a \o b : a \in Orders(SelectSeq(rows, LAMBDA r : r.idx = p)),
                    b \in sort_index(rows, p + 1) }

InitLink ==
    /\ IdleCompact /\ IdleSem /\ IdleTri /\ IdleMesh /\ IdleFetch
    /\ tile_docs \in { f \in [Tiles -> UNION { TileDocs(t) : t \in Tiles }] :
                         \A t \in Tiles : f[t] \in TileDocs(t) }
    /\ within \in [Points -> SUBSET Tiles]
    /\ dist \in [Points -> [AllBuildings -> DistValues]]
    \* a distance matters for the buildings of the tiles that contain the
    \* point: any other building is far, a building without footprint is near
    /\ \A p \in Points : \A b \in AllBuildings :
          IF TileOf(b) \notin within[p] \/ b \notin DOMAIN tile_docs[TileOf(b)].CityObjects
          THEN dist[p][b] = 30
          ELSE tile_docs[TileOf(b)].CityObjects[b] # GroundBuilding => dist[p][b] = 10
    /\ pc = "assign"
    /\ osm_with_tiles = <<>> /\ tile_queue = <<>>
    /\ cityjson_cache = <<>> /\ matched_chunks = <<>> /\ matched_all = <<>>
    /\ next_row = 1 /\ files = <<>>

\* faulty variant: every tile of the index is processed
groupby_every_tile(w) == TilePaths

\* line 279: has_tile.groupby("path"), the paths that have a point, each once
groupby_path(w) == SelectSeq(TilePaths, LAMBDA t : \E p \in Points : t \in w[p])

\* lines 258-276
AssignTiles ==
    /\ pc = "assign"
    /\ osm_with_tiles' = sjoin_within(within)
    /\ tile_queue' = groupby_path(within)
    /\ pc' = "tiles"
    /\ UNCHANGED <<linkInputs, cityjson_cache, matched_chunks, matched_all, next_row, files,
                   compactVars, semVars, triVars, meshVars, fetchVars>>

\* faulty variant: the points of a tile without footprints are dropped
unmatched_group_dropped(group) == <<>>

\* lines 293-296: the points of a tile without footprints
unmatched_group(group) == [r \in DOMAIN group |-> Matched(group[r], "None", NoneValue)]

\* lines 279-307, one iteration of the loop over the tiles; no exception is
\* handled in main, so one raised here ends the run
ProcessTile ==
    /\ pc = "tiles" /\ tile_queue # <<>>
    /\ LET tile_path_str == Head(tile_queue)
           group == SelectSeq(osm_with_tiles, LAMBDA r : r.path = tile_path_str)
           doc == IF tile_path_str \in DOMAIN cityjson_cache
                  THEN cityjson_cache[tile_path_str] ELSE tile_docs[tile_path_str]
           bldg_gdf == load_buildings_from_cityjson(doc)
       IN \* lines 285-286: open() or json.load() fails
          IF tile_path_str \notin DOMAIN cityjson_cache /\ "file" \in doc.missing
          THEN /\ pc' = "crashed"
               /\ UNCHANGED <<tile_queue, matched_chunks, cityjson_cache>>
          ELSE
          /\ cityjson_cache' =
                [t \in DOMAIN cityjson_cache \cup {tile_path_str} |->
                    IF t = tile_path_str THEN doc ELSE cityjson_cache[t]]
          /\ IF bldg_gdf.raised # "none"
             THEN /\ pc' = "crashed"
                  /\ UNCHANGED <<tile_queue, matched_chunks>>
             ELSE /\ pc' = "tiles"
                  /\ tile_queue' = Tail(tile_queue)
                  /\ matched_chunks' = Append(matched_chunks,
                        IF bldg_gdf.rows = <<>>
                        THEN unmatched_group(group)
                        ELSE sjoin_nearest(group, bldg_gdf.rows, dist, MAX_BUILDING_DISTANCE))
    /\ UNCHANGED <<linkInputs, osm_with_tiles, matched_all, next_row, files,
                   compactVars, semVars, triVars, meshVars, fetchVars>>

\* lines 309-323
ConcatChunks ==
    /\ pc = "tiles" /\ tile_queue = <<>>
    /\ LET no_tile == SelectSeq(osm_with_tiles, LAMBDA r : r.path = "NaN")
           unmatched(rows) == [r \in DOMAIN rows |-> Matched(rows[r], "None", NoneValue)]
           chunks == IF matched_chunks # <<>> THEN Flatten(matched_chunks)
                     ELSE unmatched(osm_with_tiles)
       IN /\ matched_all' \in sort_index(chunks \o unmatched(no_tile), 0)
          \* the output loop over no rows ends at once
          /\ pc' = IF chunks \o unmatched(no_tile) = <<>> THEN "done" ELSE "write"
    /\ next_row' = 1
    /\ UNCHANGED <<linkInputs, osm_with_tiles, tile_queue, cityjson_cache, matched_chunks,
                   files, compactVars, semVars, triVars, meshVars, fetchVars>>

\* lines 328-383, one iteration of the output loop
WriteRow ==
    /\ pc = "write" /\ next_row <= Len(matched_all)
    /\ LET row == matched_all[next_row]
           osm_id == row.idx
           cityjson_single ==
               IF row.bldg_id # "None" /\ row.path \in DOMAIN cityjson_cache
               THEN make_single_building_cityjson(cityjson_cache[row.path], row.bldg_id)
               ELSE [status |-> "None", doc |-> NoDoc]
           bld_data ==
               [osm_id |-> osm_id,
                cityjson_tile |-> row.path,
                cityjson_building_id |-> row.bldg_id,
                distance_to_building_m |-> IF row.dist_m.na = "" THEN row.dist_m ELSE NoneValue,
                cityjson |-> cityjson_single]
       IN /\ IF cityjson_single.status = "IndexError"
             THEN pc' = "crashed" /\ UNCHANGED <<next_row, files>>
             ELSE /\ files' = [q \in DOMAIN files \cup {osm_id} |->
                                  IF q = osm_id THEN bld_data ELSE files[q]]
                  /\ next_row' = next_row + 1
                  /\ pc' = IF next_row = Len(matched_all) THEN "done" ELSE "write"
          \* what the call leaves of the cached document
          /\ cityjson_cache' =
                IF row.bldg_id # "None" /\ row.path \in DOMAIN cityjson_cache
                THEN [cityjson_cache EXCEPT ![row.path] = cj_after_call(@, row.bldg_id)]
                ELSE cityjson_cache
    /\ UNCHANGED <<linkInputs, osm_with_tiles, tile_queue, matched_chunks,
                   matched_all, compactVars, semVars, triVars, meshVars, fetchVars>>

NextLink == AssignTiles \/ ProcessTile \/ ConcatChunks \/ WriteRow

SpecLink == InitLink /\ [][NextLink]_vars

(***************************************************************************)
(* bld2mesh.py: from the geometries of one building to the exported scene  *)
(***************************************************************************)
RECURSIVE collect_surfaces(_, _, _, _, _)
\* lines 155-164 and 200-209: the outer rings of the surfaces from the k-th
\* on, each with the semantic type of its index path
collect_surfaces(surfaces, k, prefix, surf_defs, values) ==
    IF k > Len(surfaces) THEN <<>>
    ELSE LET surface == surfaces[k]
             rest == collect_surfaces(surfaces, k + 1, prefix, surf_defs, values)
         IN \* if not surface: continue
            IF surface.c = <<>> THEN rest
            \* outer_ring = surface[0]; if len(outer_ring) < 3: continue
            ELSE IF Len(surface.c[1].c) < 3 THEN rest
            ELSE LET ret == get_sem_type(surf_defs, values, Append(prefix, k - 1))
                     outer_ring == [i \in DOMAIN surface.c[1].c |-> surface.c[1].c[i].v]
                 IN << [raised |-> ret.raised, type |-> ret.type, ring |-> outer_ring] >>
                    \o rest

\* lines 174-194: the surfaces of the shells of the solids
collect_solids(boundaries, surf_defs, values) ==
    Flatten([i \in DOMAIN boundaries |->
        Flatten([j \in DOMAIN boundaries[i].c |->
            collect_surfaces(boundaries[i].c[j].c, 1, <<i - 1, j - 1>>, surf_defs, values)])])

\* lines 115-209, one iteration of the loop over the geometries
collect_geom(geom) ==
    LET surf_defs == surf_defs_of(geom.semantics)
        values == values_of(geom.semantics)
    IN IF geom.type \in {"MultiSurface", "CompositeSurface"}
       THEN collect_surfaces(geom.boundaries.c, 1, <<>>, surf_defs, values)
       ELSE IF geom.type \in {"Solid", "MultiSolid"}
       THEN collect_solids(geom.boundaries.c, surf_defs, values)
       ELSE collect_surfaces(geom.boundaries.c, 1, <<>>, surf_defs, values)

RECURSIVE keys_in_order(_)
\* the keys of a dict in the order of their first insertion
keys_in_order(entries) ==
    IF entries = <<>> THEN <<>>
    ELSE LET init == keys_in_order(SubSeq(entries, 1, Len(entries) - 1))
             last == entries[Len(entries)].type
         IN IF \E i \in DOMAIN init : init[i] = last THEN init ELSE Append(init, last)

\* polygons_by_type[sem_type].append(outer_ring) for every collected surface
group_by_type(entries) ==
    LET keys == keys_in_order(entries)
    IN [n \in DOMAIN keys |->
           [type |-> keys[n],
            polys |-> LET sel == SelectSeq(entries, LAMBDA e : e.type = keys[n])
                      IN [i \in DOMAIN sel |-> sel[i].ring]]]

\* lines 220-222: {idx for polys in ... for poly in polys for idx in poly}
ring_indices(pbt) ==
    UNION { UNION { { pbt[n].polys[i][k] : k \in DOMAIN pbt[n].polys[i] } :
                    i \in DOMAIN pbt[n].polys } :
            n \in DOMAIN pbt }

\* lines 255-258: the triangles of the polygons of one type
faces_of(polys, g2l) == Flatten([i \in DOMAIN polys |-> triangulate_fan(polys[i], g2l)])

\* faulty variant: node_name is not passed, the node gets the default name
scene_nodes_unnamed(ms) == [n \in DOMAIN ms |-> [name |-> "geometry", faces |-> ms[n].faces]]

\* lines 274-276: scene.add_geometry(mesh, node_name=sem_type)
scene_nodes(ms) == [n \in DOMAIN ms |-> [name |-> ms[n].type, faces |-> ms[n].faces]]

vertices_global == full_vertices_of_tile

\* surfaces of a geometry: empty, with a ring of two vertices, a triangle, a
\* quadrilateral that references a vertex the tile does not have, and a
\* quadrilateral with a hole
SampleSurfaces ==
    { Group(<<>>),
      Group(<<Group(<<Leaf(0), Leaf(1)>>)>>),
      Group(<<Triangle>>),
      Group(<<Group(<<Leaf(0), Leaf(2), Leaf(1), Leaf(NumVertices)>>)>>),
      Group(<<Group(<<Leaf(2), Leaf(1), Leaf(0), Leaf(1)>>), Triangle>>) }

\* semantic values of the surfaces: complete, too short, and with an empty
\* group
SampleValues ==
    { Group([i \in 1..MaxMeshSurfaces |-> Leaf(i % 2)]),
      Group(<<Leaf(1)>>),
      Group(<<Group(<<>>), Leaf(0)>>) }

\* a solid geometry has an empty solid, then a solid with an empty shell and
\* the shell of the surfaces
MeshGeometries ==
    UNION { { GeomS(t, IF t = "Solid"
                       THEN Group(<<Group(<<>>), Group(<<Group(<<>>), Group(ss)>>)>>)
                       ELSE Group(ss),
                    sem) :
                ss \in SeqsUpTo(SampleSurfaces, MaxMeshSurfaces),
                sem \in { NoSemantics, NullSemantics }
                       \cup { Semantics(<<"WallSurface", "RoofSurface">>,
                                        IF t = "Solid"
                                        THEN Group(<<Null, Group(<<Null, v>>)>>) ELSE v) :
                                v \in SampleValues } } :
            t \in {"MultiSurface", "Solid", "GeometryInstance"} }

\* a second geometry of the building: one roof triangle
RoofGeometry ==
    GeomS("CompositeSurface", Group(<<Group(<<Triangle>>)>>),
          Semantics(<<"WallSurface", "RoofSurface">>, Group(<<Leaf(1)>>)))

InitMesh ==
    /\ IdleCompact /\ IdleSem /\ IdleTri /\ IdleLink /\ IdleFetch
    /\ geoms \in { <<>> } \cup { <<g>> : g \in MeshGeometries }
                 \cup { <<g, RoofGeometry>> : g \in MeshGeometries }
    /\ stage = "collect"
    /\ polygons_by_type = <<>> /\ meshes = <<>> /\ scene = <<>>

\* lines 108-214
CollectPolygons ==
    /\ stage = "collect"
    /\ LET entries == Flatten([g \in DOMAIN geoms |-> collect_geom(geoms[g])])
       IN \* if not geoms: error("Building has no 'geometry'.")
          IF geoms = <<>>
          THEN stage' = "error" /\ UNCHANGED polygons_by_type
          \* get_sem_type raised: the script ends with a traceback
          ELSE IF \E i \in DOMAIN entries : entries[i].raised # "none"
          THEN stage' = "crashed" /\ UNCHANGED polygons_by_type
          \* if not polygons_by_type: error("No polygons found ...")
          ELSE IF entries = <<>>
          THEN stage' = "error" /\ UNCHANGED polygons_by_type
          ELSE stage' = "index" /\ polygons_by_type' = group_by_type(entries)
    /\ UNCHANGED <<geoms, meshes, scene, compactVars, semVars, triVars, linkVars, fetchVars>>

\* lines 220-231
IndexVertices ==
    /\ stage = "index"
    /\ used_global_indices' = sorted(ring_indices(polygons_by_type))
    \* an index beyond the vertex array fails the slice: error(...)
    /\ stage' = IF \/ ring_indices(polygons_by_type) = {}
                   \/ \E g \in ring_indices(polygons_by_type) : g >= Len(vertices_global)
                THEN "error" ELSE "triangulate"
    /\ UNCHANGED <<geoms, polygons_by_type, meshes, scene, ring_global_indices, tris,
                   compactVars, semVars, linkVars, fetchVars>>

\* lines 253-268
BuildMeshes ==
    /\ stage = "triangulate"
    /\ LET g2l == global_to_local(used_global_indices)
           all == [n \in DOMAIN polygons_by_type |->
                      [type |-> polygons_by_type[n].type,
                       faces |-> faces_of(polygons_by_type[n].polys, g2l)]]
       IN \* if not faces: continue
          meshes' = SelectSeq(all, LAMBDA m : m.faces # <<>>)
    \* if not meshes: error("No faces generated ...")
    /\ stage' = IF meshes' = <<>> THEN "error" ELSE "export"
    /\ UNCHANGED <<geoms, polygons_by_type, scene, compactVars, semVars, triVars, linkVars, fetchVars>>

\* lines 273-281: the scene is written, or the export fails
Export ==
    /\ stage = "export"
    /\ \/ scene' = scene_nodes(meshes) /\ stage' = "exported"
       \/ scene' = scene /\ stage' = "error"
    /\ UNCHANGED <<geoms, polygons_by_type, meshes, compactVars, semVars, triVars, linkVars, fetchVars>>

NextMesh == CollectPolygons \/ IndexVertices \/ BuildMeshes \/ Export

SpecMesh == InitMesh /\ [][NextMesh]_vars

(***************************************************************************)
(* amenity_fetch.py: fetch_overpass and _run_with_fallback                 *)
(***************************************************************************)
INTER_REQUEST_DELAY == 2
MAX_RETRIES == 5
BASE_BACKOFF == 30

\* line 383: the statuses that are retried
RetryCodes == {429, 503, 504, 502}

\* what requests.post gives: a response with a status, a body text and, for
\* a 200, a number of elements; or a requests.RequestException with a text.
\* A text is the sequence of its words, a number being a word of its own.
HttpResponse(code, text, n) == [kind |-> "http", code |-> code, text |-> text, elements |-> n]
RequestException(text) == [kind |-> "network", code |-> 0, text |-> text, elements |-> 0]

Responses ==
    { HttpResponse(200, <<>>, n) : n \in 0..1 }
    \cup { HttpResponse(c, <<>>, 0) : c \in RetryCodes }
    \cup { HttpResponse(500, t, 0) : t \in { <<"runtime", "error">>, <<"502", "Bad", "Gateway">> } }
    \cup { RequestException(t) :
             t \in { <<"Read", "timed", "out.">>, <<"Tunnel", "connection", "failed:", "503">> } }

Running == [status |-> "running", msg |-> <<>>, elements |-> 0]
Returned(n) == [status |-> "returned", msg |-> <<>>, elements |-> n]
Raised(msg) == [status |-> "raised", msg |-> msg, elements |-> 0]

\* faulty variant: the back-off is not doubled
fetch_iteration_constant_backoff(att, bo, r) ==
    LET a == att + 1
        ends(sl, ret) == [attempt |-> a, backoff |-> bo, sleep |-> sl, ret |-> ret]
    IN IF r.kind = "network"
       THEN ends(<<>>, Raised(<<"Network", "error", "contacting", "Overpass:">> \o r.text))
       ELSE IF r.code = 200 THEN ends(<<INTER_REQUEST_DELAY>>, Returned(r.elements))
       ELSE IF r.code \in RetryCodes
       THEN IF a > MAX_RETRIES
            THEN ends(<<>>, Raised(<<"Overpass", "kept", "returning", ToString(r.code),
                                     "after", ToString(MAX_RETRIES), "retries.">>))
            ELSE [attempt |-> a, backoff |-> bo, sleep |-> <<bo>>, ret |-> Running]
       ELSE ends(<<>>, Raised(<<"Overpass", "returned", "unexpected", "status",
                                ToString(r.code), ":">> \o r.text))

\* lines 359-401, one iteration of the loop of fetch_overpass: the attempt
\* and back-off after it, what it slept, and how it ended the call if it did
fetch_iteration(att, bo, r) ==
    LET a == att + 1
        ends(sl, ret) == [attempt |-> a, backoff |-> bo, sleep |-> sl, ret |-> ret]
    IN \* except requests.RequestException
       IF r.kind = "network"
       THEN ends(<<>>, Raised(<<"Network", "error", "contacting", "Overpass:">> \o r.text))
       ELSE IF r.code = 200 THEN ends(<<INTER_REQUEST_DELAY>>, Returned(r.elements))
       ELSE IF r.code \in RetryCodes
       THEN IF a > MAX_RETRIES
            THEN ends(<<>>, Raised(<<"Overpass", "kept", "returning", ToString(r.code),
                                     "after", ToString(MAX_RETRIES), "retries.">>))
            ELSE [attempt |-> a, backoff |-> 2 * bo, sleep |-> <<bo>>, ret |-> Running]
       ELSE ends(<<>>, Raised(<<"Overpass", "returned", "unexpected", "status",
                                ToString(r.code), ":">> \o r.text))

\* line 485: any(code in msg for code in ("504", "503", "429", "502"))
timeout_like(msg) == \E i \in DOMAIN msg : msg[i] \in {"504", "503", "429", "502"}

\* line 480: fetch_overpass has been called for the area query
InitFetch ==
    /\ IdleCompact /\ IdleSem /\ IdleTri /\ IdleLink /\ IdleMesh
    /\ phase = "area" /\ calls = <<"area">>
    /\ attempt = 0 /\ backoff = BASE_BACKOFF /\ sleeps = <<>>
    /\ resp = NoResponse /\ fetch_ret = Running /\ area_ret = NoOutcome

\* lines 359-401, one iteration of the loop, with any response
Request ==
    /\ phase \in {"area", "bbox"} /\ fetch_ret.status = "running"
    /\ \E r \in Responses :
          LET it == fetch_iteration(attempt, backoff, r)
          IN /\ resp' = r
             /\ attempt' = it.attempt /\ backoff' = it.backoff
             /\ sleeps' = sleeps \o it.sleep
             /\ fetch_ret' = it.ret
    /\ UNCHANGED <<phase, area_ret, calls, compactVars, semVars, triVars, linkVars, meshVars>>

\* lines 479-491: the area call has ended
AfterArea ==
    /\ phase = "area" /\ fetch_ret.status # "running"
    /\ area_ret' = fetch_ret
    /\ phase' = IF fetch_ret.status = "returned"
                THEN (IF fetch_ret.elements = 0 THEN "fallback" ELSE "returned")
                ELSE (IF timeout_like(fetch_ret.msg) THEN "fallback" ELSE "raised")
    /\ UNCHANGED <<attempt, backoff, sleeps, resp, fetch_ret, calls,
                   compactVars, semVars, triVars, linkVars, meshVars>>

\* lines 492-512: the bbox clause is looked up, which can fail, and
\* fetch_overpass is called for the bbox query
Fallback ==
    /\ phase = "fallback"
    /\ \/ /\ phase' = "bbox" /\ calls' = Append(calls, "bbox")
          /\ attempt' = 0 /\ backoff' = BASE_BACKOFF /\ sleeps' = <<>>
          /\ resp' = NoResponse /\ fetch_ret' = Running
       \/ /\ phase' = "raised"
          /\ UNCHANGED <<calls, attempt, backoff, sleeps, resp, fetch_ret>>
    /\ UNCHANGED <<area_ret, compactVars, semVars, triVars, linkVars, meshVars>>

\* lines 512-516: the bbox call has ended
AfterBbox ==
    /\ phase = "bbox" /\ fetch_ret.status # "running"
    /\ phase' = fetch_ret.status
    /\ UNCHANGED <<attempt, backoff, sleeps, resp, fetch_ret, area_ret, calls,
                   compactVars, semVars, triVars, linkVars, meshVars>>

NextFetch == Request \/ AfterArea \/ Fallback \/ AfterBbox

SpecFetch == InitFetch /\ [][NextFetch]_vars

(***************************************************************************)
(* Properties of vertex compaction                                         *)
(***************************************************************************)
\* the call under observation extracted a building present in its input
Extracted == call_ret.status = "ok"
InObj == call_cj.CityObjects[call_id]
OutObj == call_ret.doc.CityObjects[call_id]
InUsed == used_indices(InObj)

\* number of referenced global indices below g
RankIn(S, g) == Cardinality({ u \in S : u < g })

\* C1: when the building references at least one vertex index, the integer
\* leaves of the remapped boundary trees are exactly 0..N-1, with N the number
\* of distinct referenced global indices and N = len(new vertices); no leaf
\* is >= len(new vertices).
C1_LocalIndexSpace ==
    (Extracted /\ InUsed # {}) =>
        LET N == Cardinality(InUsed)
            out == used_indices(OutObj)
        IN /\ out = 0..(N - 1)
           /\ N = Len(call_ret.doc.vertices)
           /\ \A k \in out : k < Len(call_ret.doc.vertices)

C1_Witness ==
    /\ Extracted /\ ~recompact /\ call_id = "A"
    /\ InUsed = {0, 2}

\* the tree out is the tree in with every integer leaf g replaced by the
\* rank of g among the referenced indices S
RECURSIVE LeavesRanked(_, _, _)
LeavesRanked(in, out, S) ==
    /\ out.kind = in.kind
    /\ in.kind = "int" => out.v = RankIn(S, in.v)
    /\ in.kind = "list" =>
          /\ Len(out.c) = Len(in.c)
          /\ \A i \in DOMAIN in.c : LeavesRanked(in.c[i], out.c[i], S)

\* C2: local indices are assigned in ascending order of the used global
\* indices: new_vertices[i] is the original vertex at the i-th smallest
\* referenced index, and every leaf g is rewritten to the rank of g.
C2_AscendingOrder ==
    Extracted =>
        /\ \A g \in InUsed :
              /\ RankIn(InUsed, g) + 1 \in DOMAIN call_ret.doc.vertices
              /\ call_ret.doc.vertices[RankIn(InUsed, g) + 1] = call_cj.vertices[g + 1]
        /\ Len(OutObj.geometry) = Len(InObj.geometry)
        /\ \A k \in DOMAIN InObj.geometry :
              LeavesRanked(InObj.geometry[k].boundaries,
                           OutObj.geometry[k].boundaries, InUsed)

C2_Witness ==
    /\ Extracted /\ ~recompact /\ call_id = "A"
    /\ InUsed = {1, 2}
    /\ call_ret.doc.vertices = <<20, 30>>

RECURSIVE SameShape(_, _)
SameShape(in, out) ==
    /\ out.kind = in.kind
    /\ in.kind = "other" => out = in
    /\ in.kind = "list" =>
          /\ Len(out.c) = Len(in.c)
          /\ \A i \in DOMAIN in.c : SameShape(in.c[i], out.c[i])

\* C3: remapping preserves the shape of every boundary tree: same nesting,
\* same number of children at every branch, integer leaves at exactly the
\* positions of the input's integer leaves.
C3_ShapePreserved ==
    Extracted =>
        /\ Len(OutObj.geometry) = Len(InObj.geometry)
        /\ \A k \in DOMAIN InObj.geometry :
              SameShape(InObj.geometry[k].boundaries, OutObj.geometry[k].boundaries)

C3_Witness ==
    /\ Extracted /\ ~recompact /\ call_id = "A"
    /\ \E k \in DOMAIN InObj.geometry :
          LET b == InObj.geometry[k].boundaries
          IN /\ b.kind = "list" /\ Len(b.c) = 2
             /\ b.c[1].kind = "other"
             /\ b.c[2].kind = "list" /\ Len(b.c[2].c) = 1
             /\ b.c[2].c[1] = Leaf(2)
             /\ OutObj.geometry[k].boundaries.c[2].c[1] = Leaf(0)

\* C4: compaction is idempotent: applied to the single-building document it
\* produced, with the same building id, it returns a document with the same
\* vertices and the same boundary trees.
C4_Idempotent ==
    recompact =>
        /\ call_ret.status = "ok"
        /\ call_ret.doc.vertices = call_cj.vertices
        /\ Len(OutObj.geometry) = Len(InObj.geometry)
        /\ \A k \in DOMAIN InObj.geometry :
              OutObj.geometry[k].boundaries = InObj.geometry[k].boundaries

C4_Witness ==
    /\ recompact /\ call_id = "A"
    /\ call_cj.vertices = <<10, 30>>
    /\ call_cj.vertices # cj.vertices

\* C5 as stated: compaction of an empty index set fails and never returns a
\* compacted result.
C5_EmptyGeometryFails ==
    (call_id \in DOMAIN call_cj.CityObjects /\ InUsed = {}) => call_ret.status # "ok"

\* C5 amended: for a building whose boundary trees reference no vertex index,
\* make_single_building_cityjson does not fail; it returns the document with
\* an empty vertices array and the boundary trees unchanged.
C5_EmptyGeometryKept ==
    (call_id \in DOMAIN call_cj.CityObjects /\ InUsed = {}) =>
        /\ call_ret.status = "ok"
        /\ call_ret.doc.vertices = <<>>
        /\ OutObj = InObj

C5_Witness ==
    /\ Extracted /\ ~recompact /\ call_id = "A"
    /\ InUsed = {}
    /\ Len(InObj.geometry) = 2
    /\ call_ret.doc.vertices = <<>>

\* C16: the single-building document of building b has a CityObjects member
\* with exactly the key b, and every other top-level member of the source
\* document besides CityObjects and vertices with the same value; no other
\* top-level member is added or dropped.
C16_TopLevelFrame ==
    Extracted =>
        /\ DOMAIN call_ret.doc.CityObjects = {call_id}
        /\ call_ret.doc.rest = call_cj.rest
        /\ DOMAIN call_ret.doc = {"vertices", "CityObjects", "rest"}

C16_Witness ==
    /\ Extracted /\ ~recompact
    /\ DOMAIN call_cj.CityObjects = {"A", "B"}
    /\ call_cj.rest # TopLevelKeys
    /\ DOMAIN call_ret.doc.CityObjects = {"B"}
    /\ call_ret.doc.rest.metadata = "EPSG:25832"

RECURSIVE SameCoords(_, _, _, _)
\* two boundary trees of equal shape whose leaves denote the same coordinates
SameCoords(a, b, va, vb) ==
    /\ a.kind = b.kind
    /\ a.kind = "int" => va[a.v + 1] = vb[b.v + 1]
    /\ a.kind = "list" =>
          /\ Len(a.c) = Len(b.c)
          /\ \A i \in DOMAIN a.c : SameCoords(a.c[i], b.c[i], va, vb)

\* the semantic type the resolver gives for surface s of a geometry
TypeAt(geom, s) ==
    get_sem_type(surf_defs_of(geom.semantics), values_of(geom.semantics), <<s>>)

\* C17: for every surface of every geometry of the extracted building, the
\* semantic type resolved in the extracted document equals the one resolved
\* in the source document at the same path, and the rings at that path denote
\* the same vertex coordinates.
C17_SurfacesPreserved ==
    Extracted =>
        /\ DOMAIN OutObj.geometry = DOMAIN InObj.geometry
        /\ \A g \in DOMAIN InObj.geometry :
              /\ InObj.geometry[g].boundaries.kind = "list" =>
                    \A s \in 0..(Len(InObj.geometry[g].boundaries.c) - 1) :
                        TypeAt(OutObj.geometry[g], s) = TypeAt(InObj.geometry[g], s)
              /\ SameCoords(InObj.geometry[g].boundaries, OutObj.geometry[g].boundaries,
                            call_cj.vertices, call_ret.doc.vertices)

C17_Witness ==
    /\ Extracted /\ ~recompact /\ call_id = "B"
    /\ OutObj.geometry[1].boundaries # InObj.geometry[1].boundaries
    /\ TypeAt(OutObj.geometry[1], 0) = Returns("RoofSurface")
    /\ call_ret.doc.vertices = << call_cj.vertices[1], call_cj.vertices[NumVertices] >>

\* C24: make_single_building_cityjson leaves the source document unchanged:
\* after any sequence of extractions from a cached tile document, of present
\* and of absent building ids, its vertices, its CityObjects and every
\* boundary tree are what they were before the first call, so that every
\* extraction gives what it gives on the untouched document.
C24_SourceUnchanged ==
    [][ /\ cj' = cj
        /\ (call_ret' # call_ret /\ ~recompact') =>
              call_ret' = make_single_building_cityjson(cj, call_id')
      ]_vars

C24_Witness ==
    /\ Extracted /\ ~recompact /\ call_id = "B"
    /\ call_cj = cj
    /\ OutObj.geometry[1].boundaries # InObj.geometry[1].boundaries
    /\ cj.CityObjects["B"] = BuildingB
    /\ cj.vertices = full_vertices_of_tile

(***************************************************************************)
(* Properties of semantic resolution                                       *)
(***************************************************************************)
Resolved == sem_ret.raised # "nocall"

\* C6: get_sem_type never raises: for every geometry and every path it
\* returns a semantic type string.
C6_NeverRaises ==
    Resolved => sem_ret.raised = "none"

\* the value that semantics.values holds at idx_path, when the path fits
WalkEnd == walk(values_of(semantics), idx_path)

\* C7: when the walk along the path ends at an integer k or at a
\* single-element group [k], the result is surfaces[k].type for
\* 0 <= k < len(surfaces) and "Unknown" otherwise; surfaces [Wall, Roof] with
\* values [0,1,0] resolve (0,),(1,),(2,),(5,) to Wall, Roof, Wall, Unknown.
C7_ResolvesIndex ==
    /\ (Resolved /\ semantics.json = "object" /\ WalkEnd.err = "none") =>
          LET e == WalkEnd.v
              ks == IF e.kind = "int" THEN { e.v }
                    ELSE IF e.kind = "list" /\ Len(e.c) = 1 /\ e.c[1].kind = "int"
                         THEN { e.c[1].v }
                    ELSE {}
          IN \A k \in ks :
                sem_ret = Returns(IF 0 <= k /\ k < Len(semantics.surfaces)
                                  THEN semantics.surfaces[k + 1]
                                  ELSE "Unknown")
    /\ (/\ Resolved
        /\ semantics = Semantics(<<"WallSurface", "RoofSurface">>,
                                  Group(<<Leaf(0), Leaf(1), Leaf(0)>>))) =>
          /\ idx_path = <<0>> => sem_ret = Returns("WallSurface")
          /\ idx_path = <<1>> => sem_ret = Returns("RoofSurface")
          /\ idx_path = <<2>> => sem_ret = Returns("WallSurface")
          /\ idx_path = <<5>> => sem_ret = Returns("Unknown")

C7_Witness ==
    /\ Resolved
    /\ semantics.surfaces = <<"WallSurface", "RoofSurface">>
    /\ semantics.values = Group(<<Group(<<Group(<<Leaf(1)>>)>>)>>)
    /\ idx_path = <<0, 0>> \o <<0>>
    /\ sem_ret = Returns("RoofSurface")

(***************************************************************************)
(* Properties of fan triangulation                                         *)
(***************************************************************************)
Triangulated == tris # <<"nocall">>

\* local index of a global index: its rank among the used global indices
LocalOf(g) == Cardinality({ i \in DOMAIN used_global_indices : used_global_indices[i] < g })

\* C8: a ring of length L < 3 yields no triangle; a ring of length L >= 3
\* yields exactly the L-2 triangles (ring[0], ring[i], ring[i+1]), i = 1..L-2,
\* in that order and in local indices; [0,1,2,3] gives [(0,1,2),(0,2,3)] and
\* [0,1] gives [].
C8_FanTriangles ==
    Triangulated =>
        LET ring == ring_global_indices
            L == Len(ring)
        IN /\ L < 3 => tris = <<>>
           /\ L >= 3 =>
                /\ Len(tris) = L - 2
                /\ \A i \in 1..(L - 2) :
                      tris[i] = <<LocalOf(ring[1]), LocalOf(ring[i + 1]), LocalOf(ring[i + 2])>>
           /\ (used_global_indices = <<0, 1, 2, 3>> /\ ring = <<0, 1, 2, 3>>) =>
                tris = << <<0, 1, 2>>, <<0, 2, 3>> >>
           /\ ring = <<0, 1>> => tris = <<>>

C8_Witness ==
    /\ Triangulated
    /\ used_global_indices = <<0, 2, 3>>
    /\ ring_global_indices = <<3, 0, 2, 0>>
    /\ tris = << <<2, 0, 1>>, <<2, 1, 0>> >>

(***************************************************************************)
(* Properties of point-to-building linking                                 *)
(***************************************************************************)
\* the buildings of tile t that have a ground surface, hence a footprint
FootprintsOf(t) ==
    { b \in DOMAIN tile_docs[t].CityObjects : tile_docs[t].CityObjects[b] = GroundBuilding }

\* distance from point p to the nearest footprint of tile t
NearestDist(p, t) ==
    CHOOSE m \in DistValues :
        /\ \E b \in FootprintsOf(t) : dist[p][b] = m
        /\ \A b \in FootprintsOf(t) : dist[p][b] >= m

\* C9: within a tile, a point is linked to its nearest footprint if and only
\* if that footprint is at most MAX_BUILDING_DISTANCE (25) away; the row then
\* carries that building id and its distance, and otherwise a null building
\* id and a null distance.
C9_LinkedWithinThreshold ==
    \A j \in DOMAIN matched_chunks : \A r \in DOMAIN matched_chunks[j] :
        LET row == matched_chunks[j][r]
        IN FootprintsOf(row.path) # {} =>
             LET m == NearestDist(row.idx, row.path)
             IN /\ (m <= 25) <=> ~isna(row.bldg_id)
                /\ m <= 25 =>
                     /\ row.bldg_id \in FootprintsOf(row.path)
                     /\ dist[row.idx][row.bldg_id] = m
                     /\ row.dist_m = DistOf(m)
                /\ m > 25 => row.dist_m.na # ""

C9_Witness ==
    /\ pc = "done"
    /\ FootprintsOf("t1") = {"A", "B"} /\ FootprintsOf("t2") = {"C"}
    /\ dist[0]["B"] = 30 /\ dist[0]["C"] = 30
    /\ \E j, k \in DOMAIN matched_chunks :
          /\ matched_chunks[j] = << Matched([idx |-> 0, path |-> "t1"], "A", DistOf(25)) >>
          /\ matched_chunks[k] = << Matched([idx |-> 0, path |-> "t2"], "NaN", NaNValue) >>

\* building ids in ascending order
IdRank(b) == CHOOSE i \in 1..3 : <<"A", "B", "C">>[i] = b

\* C10: when several footprints of a tile are at the same minimal distance
\* (<= threshold) from a point, the point is linked to the one with the
\* lowest building id, whatever the order of the buildings in the document.
C10_TieLowestId ==
    pc = "done" =>
        \A p \in Points : \A t \in Tiles :
            (within[p] = {t} /\ FootprintsOf(t) # {}) =>
                LET m == NearestDist(p, t)
                    tied == { b \in FootprintsOf(t) : dist[p][b] = m }
                IN (m <= 25 /\ Cardinality(tied) >= 2) =>
                      /\ p \in DOMAIN files
                      /\ files[p].cityjson_building_id \in tied
                      /\ \A b \in tied : IdRank(files[p].cityjson_building_id) <= IdRank(b)

\* the accepted matches of point p: a containing tile and its nearest
\* footprint, at most MAX_BUILDING_DISTANCE away
Accepted(p) ==
    { m \in Tiles \X AllBuildings :
        /\ m[1] \in within[p]
        /\ m[2] \in FootprintsOf(m[1])
        /\ dist[p][m[2]] = NearestDist(p, m[1])
        /\ dist[p][m[2]] <= MAX_BUILDING_DISTANCE }

\* C11: for a point contained by several tiles, the final linked record
\* carries the accepted match with the smallest distance over all its tiles,
\* and is unmatched only if no tile yields an accepted match.
C11_GloballyNearest ==
    pc = "done" =>
        \A p \in Points : Cardinality(within[p]) >= 2 =>
            /\ p \in DOMAIN files
            /\ IF Accepted(p) = {}
               THEN isna(files[p].cityjson_building_id)
               ELSE \E m \in Accepted(p) :
                       /\ \A n \in Accepted(p) : dist[p][m[2]] <= dist[p][n[2]]
                       /\ files[p].cityjson_tile = m[1]
                       /\ files[p].cityjson_building_id = m[2]
                       /\ files[p].distance_to_building_m = DistOf(dist[p][m[2]])

\* rows of the output step that belong to point p
RowsOf(p) == { r \in DOMAIN matched_all : matched_all[r].idx = p }

\* C12: the rows handed to the output step contain each input point exactly
\* once, however many tiles contain it and however many footprints tie, so
\* that no record is written a second time.
C12_OneRecordPerPoint ==
    pc \in {"write", "done"} => \A p \in Points : Cardinality(RowsOf(p)) = 1

\* the run ended with an unhandled exception while loading tile t
CrashedAt(t) == pc = "crashed" /\ tile_queue # <<>> /\ Head(tile_queue) = t

ZeroFootprintTile(t) ==
    /\ tile_docs[t].missing = {}
    /\ \A b \in DOMAIN tile_docs[t].CityObjects : tile_docs[t].CityObjects[b] = WallBuilding

\* the loop over the tiles is past tile t
Processed(t) ==
    /\ pc # "assign"
    /\ \E p \in Points : t \in within[p]
    /\ \A k \in DOMAIN tile_queue : tile_queue[k] # t

\* the points of tile t, in input order
PointsOf(t) == SelectSeq([i \in 1..NumPoints |-> i - 1], LAMBDA p : t \in within[p])

\* C14: when a tile document yields zero footprints, every point of that tile
\* gets a row with a null building id and a null distance for that tile, no
\* error is raised, and the loop goes on with the remaining tiles.
C14_EmptyTile ==
    \A t \in Tiles : ZeroFootprintTile(t) =>
        /\ ~CrashedAt(t)
        /\ Processed(t) =>
              \E j \in DOMAIN matched_chunks :
                  matched_chunks[j] =
                      [k \in DOMAIN PointsOf(t) |->
                          Matched([idx |-> PointsOf(t)[k], path |-> t], "None", NoneValue)]

C14_Witness ==
    /\ ZeroFootprintTile("t1") /\ within[0] = {"t1", "t2"}
    /\ Len(matched_chunks) = 2
    /\ matched_chunks[1][1] = Matched([idx |-> 0, path |-> "t1"], "None", NoneValue)
    /\ matched_chunks[2][1].path = "t2"

\* the tile documents whose buildings all have regular semantics
Regular(t) ==
    /\ tile_docs[t].missing = {}
    /\ \A b \in DOMAIN tile_docs[t].CityObjects :
          tile_docs[t].CityObjects[b] \in {GroundBuilding, WallBuilding}

\* C15: a building with zero GroundSurface rings produces no footprint and is
\* absent from the footprint set, without raising; no point is ever linked
\* to such a building.
C15_NoGroundNoFootprint ==
    \A t \in Tiles : \A b \in DOMAIN tile_docs[t].CityObjects :
        tile_docs[t].CityObjects[b] = WallBuilding =>
            /\ \A k \in DOMAIN load_buildings_from_cityjson(tile_docs[t]).rows :
                  load_buildings_from_cityjson(tile_docs[t]).rows[k] # b
            /\ Regular(t) =>
                  /\ load_buildings_from_cityjson(tile_docs[t]).raised = "none"
                  /\ ~CrashedAt(t)
            /\ \A j \in DOMAIN matched_chunks : \A r \in DOMAIN matched_chunks[j] :
                  matched_chunks[j][r].bldg_id # b
            /\ \A p \in DOMAIN files : files[p].cityjson_building_id # b

C15_Witness ==
    /\ pc = "done" /\ within[0] = {"t1"}
    /\ tile_docs["t1"].missing = {}
    /\ tile_docs["t1"].CityObjects["A"] = GroundBuilding
    /\ tile_docs["t1"].CityObjects["B"] = WallBuilding
    /\ dist[0]["A"] = 30 /\ dist[0]["B"] = 10
    /\ 0 \in DOMAIN files /\ files[0].cityjson_building_id = "NaN"

\* the only faults of the run are tile files that are unreadable or malformed
OnlyTileFilesBroken == \A t \in Tiles : tile_docs[t].missing # {} \/ Regular(t)

\* C19: a tile document that is missing, unreadable or malformed (no vertices,
\* no CityObjects) is fatal for that tile only: the run still ends with a
\* record written for every point.
C19_TileFailureIsLocal ==
    (pc \in {"done", "crashed"} /\ OnlyTileFilesBroken) =>
        \A p \in Points : p \in DOMAIN files

\* the resolver of bld2mesh.py finds a ground surface in building obj
ResolverGround(obj) ==
    \E g \in DOMAIN obj.geometry :
        LET geom == obj.geometry[g]
        IN /\ geom.type = "MultiSurface"
           /\ geom.boundaries.kind = "list"
           /\ \E s \in DOMAIN geom.boundaries.c :
                 get_sem_type(surf_defs_of(geom.semantics), values_of(geom.semantics),
                              <<s - 1>>) = Returns("GroundSurface")

\* C20: footprint extraction agrees with the semantic resolver: a building's
\* surfaces are collected exactly when the resolver gives "GroundSurface" for
\* them, and a surface whose value cannot be resolved counts as not ground
\* without failing the extraction.
C20_AgreesWithResolver ==
    \A t \in DOMAIN cityjson_cache : cityjson_cache[t].missing = {} =>
        LET cj_tile == cityjson_cache[t]
            bldg_gdf == load_buildings_from_cityjson(cj_tile)
        IN /\ bldg_gdf.raised = "none"
           /\ \A b \in DOMAIN cj_tile.CityObjects :
                 (\E k \in DOMAIN bldg_gdf.rows : bldg_gdf.rows[k] = b)
                     <=> ResolverGround(cj_tile.CityObjects[b])

\* C21: the tile-document cache is filled lazily and at most once per key: a
\* document is loaded only for a tile that has a point, no tile path is
\* loaded twice, an entry is never removed or replaced, and at output time
\* every row with a non-null building id finds its tile document.
C21_CacheLazyOnce ==
    [][ /\ \A t \in DOMAIN cityjson_cache :
              t \in DOMAIN cityjson_cache' /\ cityjson_cache'[t] = cityjson_cache[t]
        /\ \A t \in DOMAIN cityjson_cache' \ DOMAIN cityjson_cache :
              /\ DOMAIN cityjson_cache' = DOMAIN cityjson_cache \cup {t}
              /\ pc = "tiles" /\ tile_queue # <<>> /\ t = Head(tile_queue)
              /\ \E p \in Points : t \in within[p]
              /\ cityjson_cache'[t] = tile_docs[t]
        \* a tile still to process has not been loaded, and is queued once
        /\ \A k \in DOMAIN tile_queue' :
              /\ pc' # "crashed" => tile_queue'[k] \notin DOMAIN cityjson_cache'
              /\ \A j \in DOMAIN tile_queue' : tile_queue'[j] = tile_queue'[k] => j = k
        /\ files' # files =>
              LET row == matched_all[next_row]
              IN ~isna(row.bldg_id) =>
                    /\ row.path \in DOMAIN cityjson_cache
                    /\ files'[row.idx].cityjson.status = "ok"
      ]_vars

C21_Witness ==
    /\ pc = "done" /\ within[0] = {"t2"}
    /\ DOMAIN cityjson_cache = {"t2"} /\ cityjson_cache["t2"] = tile_docs["t2"]
    /\ 0 \in DOMAIN files
    /\ files[0].cityjson_building_id = "C" /\ files[0].cityjson.status = "ok"

(***************************************************************************)
(* Properties of the mesh export                                           *)
(***************************************************************************)
MeshTypes == {"WallSurface", "RoofSurface", "GroundSurface", "Unknown"}

\* the surfaces of a geometry with their index paths
SurfacePaths(geom) ==
    LET b == geom.boundaries.c
    IN IF geom.type \in {"Solid", "MultiSolid"}
       THEN UNION { UNION { { [path |-> <<i - 1, j - 1, k - 1>>, surface |-> b[i].c[j].c[k]] :
                                k \in DOMAIN b[i].c[j].c } :
                            j \in DOMAIN b[i].c } :
                    i \in DOMAIN b }
       ELSE { [path |-> <<k - 1>>, surface |-> b[k]] : k \in DOMAIN b }

\* the triangles the building has for semantic type T: a surface whose outer
\* ring has n >= 3 vertices gives the n - 2 triangles of its fan
InputTriangles(T) ==
    UNION { UNION { { <<g, sp.path, n>> : n \in 1..(Len(sp.surface.c[1].c) - 2) } :
                    sp \in { q \in SurfacePaths(geoms[g]) :
                               /\ q.surface.c # <<>>
                               /\ get_sem_type(surf_defs_of(geoms[g].semantics),
                                               values_of(geoms[g].semantics),
                                               q.path) = Returns(T) } } :
            g \in DOMAIN geoms }

\* C18: the exported scene has exactly one node for each semantic type that
\* produced at least one triangle, named by that type ("Unknown" included),
\* and no node for a type without triangle; when no type produced a triangle
\* the script ends in an error without writing a scene.
C18_OneNodePerType ==
    /\ stage = "exported" =>
          /\ \A T \in MeshTypes :
                Cardinality({ n \in DOMAIN scene : scene[n].name = T })
                    = IF InputTriangles(T) # {} THEN 1 ELSE 0
          /\ \A n \in DOMAIN scene :
                /\ scene[n].name \in MeshTypes
                /\ Len(scene[n].faces) = Cardinality(InputTriangles(scene[n].name))
    /\ stage # "exported" => scene = <<>>
    /\ (\A T \in MeshTypes : InputTriangles(T) = {}) =>
          stage \in {"collect", "error", "crashed"}

C18_Witness ==
    /\ stage = "exported" /\ Len(geoms) = 1
    /\ geoms[1].type = "MultiSurface" /\ Len(geoms[1].boundaries.c) = 2
    /\ geoms[1].boundaries.c[1] = Group(<<Triangle>>)
    /\ geoms[1].boundaries.c[2] = Group(<<Group(<<Leaf(0), Leaf(1)>>)>>)
    /\ TypeAt(geoms[1], 0) = Returns("RoofSurface")
    /\ TypeAt(geoms[1], 1) = Returns("WallSurface")
    /\ scene = << [name |-> "RoofSurface", faces |-> << <<0, 1, 2>> >>] >>

(***************************************************************************)
(* Properties of the Overpass requests                                     *)
(***************************************************************************)
\* the waits before the first n retries: 30, 60, 120, 240, 480
Waits(n) == [k \in 1..n |-> BASE_BACKOFF * 2 ^ (k - 1)]

\* C22: fetch_overpass sends at most MAX_RETRIES + 1 = 6 requests: it returns
\* on the first 200, raises on the first status outside {200, 429, 502, 503,
\* 504} and raises after the 6th consecutive retryable status; the k-th retry
\* follows a wait of BASE_BACKOFF * 2^(k-1) seconds and no wait follows the
\* final failed attempt.
C22_BoundedRetries ==
    phase \in {"area", "bbox"} =>
        /\ attempt <= MAX_RETRIES + 1
        /\ fetch_ret.status = "running" =>
              /\ attempt <= MAX_RETRIES
              /\ attempt = 0 \/ resp.code \in RetryCodes
              /\ sleeps = Waits(attempt)
        /\ fetch_ret.status = "returned" =>
              /\ resp.code = 200
              /\ sleeps = Waits(attempt - 1) \o <<INTER_REQUEST_DELAY>>
        /\ fetch_ret.status = "raised" =>
              /\ resp.code # 200
              /\ resp.code \in RetryCodes => attempt = MAX_RETRIES + 1
              /\ sleeps = Waits(attempt - 1)
        /\ resp.kind = "http" =>
              /\ resp.code = 200 => fetch_ret.status = "returned"
              /\ resp.code \notin RetryCodes \cup {200} => fetch_ret.status = "raised"
              /\ (resp.code \in RetryCodes /\ attempt = MAX_RETRIES + 1) =>
                    fetch_ret.status = "raised"

C22_Witness ==
    /\ phase = "area" /\ fetch_ret.status = "raised"
    /\ attempt = 6 /\ resp.code = 504
    /\ sleeps = <<30, 60, 120, 240, 480>>

\* the bbox fallback query has been issued
Issued == Len(calls) = 2

\* the area query returned a document without elements
AreaEmpty == area_ret.status = "returned" /\ area_ret.elements = 0

\* the area query failed after exhausting its retries on 429/502/503/504
AreaExhausted ==
    /\ area_ret.status = "raised"
    /\ Len(area_ret.msg) >= 3
    /\ SubSeq(area_ret.msg, 1, 3) = <<"Overpass", "kept", "returning">>

\* C23: _run_with_fallback issues the bbox fallback query if and only if the
\* area query returned zero elements or failed after exhausting its retries;
\* any other failure of the area query (network error, unexpected status)
\* propagates without a fallback request; the fallback is attempted at most
\* once and always after the area query.
C23_FallbackIff ==
    /\ Len(calls) <= 2 /\ calls[1] = "area"
    /\ Issued => calls[2] = "bbox" /\ area_ret.status # "none"
    /\ Issued => AreaEmpty \/ AreaExhausted
    /\ (AreaEmpty \/ AreaExhausted) => phase # "returned" \/ Issued
    /\ (area_ret.status = "raised" /\ ~AreaExhausted) => ~Issued /\ phase = "raised"

====
